---- MODULE Spec2Model ----
(***************************************************************************)
(* State-machine model of the PocketBase client service of n8n-backup      *)
(* (class PocketBaseClient): per-client authentication store, the calls    *)
(* in flight at the backend, and the outcome of each client's last call;   *)
(* and of retryWithBackoff, the retry loop of the integration helpers.     *)
(***************************************************************************)
EXTENDS Integers, Sequences, FiniteSets

\* ---------------------------------------------------------------- bounds
\* method calls started in one behaviour
MaxCalls ==
    3
\* calls awaiting the backend at one time
MaxPending ==
    2
\* tokens the backend issues in one behaviour
MaxTokens ==
    2
\* record ids the test collection can hold
MaxRecords ==
    1
\* largest maxRetries argument of retryWithBackoff
MaxRetries ==
    3
\* largest initialDelay argument (ms) besides the default
MaxDelay ==
    2

\* ------------------------------------------------------------- constants
Clients == {"client1", "client2"}
TEST_COLLECTION == "test_records"
RecordIds == 1..MaxRecords

\* retryWithBackoff(fn, maxRetries = 3, initialDelay = 100)
DefaultMaxRetries ==
    3
DefaultInitialDelay ==
    100

GuardedOps ==
    {"listCollections", "createRecord", "getRecord", "listRecords", "updateRecord", "deleteRecord"}

\* An error message is the sequence of the segments its template is built of.
EmptyToken == <<>>
NoError == <<>>
NoValue == <<>>
NotAuthenticatedMsg == <<"Not authenticated", ". Call authenticate() first.">>
AuthFailedMsg(m) == <<"PocketBase authentication failed", ": ", m>>
HealthFailedMsg(m) == <<"PocketBase health check failed", ": ", m>>

\* Every catch block rethrowing with getRecord's message.
FailedMsgOfGetRecord(op, id, m) ==
    <<"Failed to get record ", id, " from ", TEST_COLLECTION, ": ", m>>

FailedMsg(op, id, m) ==
    CASE op = "listCollections" -> <<"Failed to list collections", ": ", m>>
      [] op = "createRecord" -> <<"Failed to create record in ", TEST_COLLECTION, ": ", m>>
      [] op = "getRecord" -> <<"Failed to get record ", id, " from ", TEST_COLLECTION, ": ", m>>
      [] op = "listRecords" -> <<"Failed to list records from ", TEST_COLLECTION, ": ", m>>
      [] op = "updateRecord" -> <<"Failed to update record ", id, " in ", TEST_COLLECTION, ": ", m>>
      [] op = "deleteRecord" -> <<"Failed to delete record ", id, " from ", TEST_COLLECTION, ": ", m>>

StartsWith(msg, prefix) == Len(msg) > 0 /\ msg[1] = prefix

VARIABLES
    authStore,   \* per client: the SDK auth store (token, admin record)
    pending,     \* requests sent to the backend and not yet answered
    last,        \* per client: the last call started or settled
    ncalls,      \* calls started so far
    issued,      \* serial of the last token the backend issued
    expired,     \* serials of the tokens whose exp claim has passed
    records,     \* ids of the records in the test collection
    retry        \* the retryWithBackoff call: arguments, locals, position

vars == <<authStore, pending, last, ncalls, issued, expired, records, retry>>

\* ------------------------------------------------------------- auth store
\* A clear that forgets the admin record and keeps the token.
clearRecordOnly(store) == [store EXCEPT !.record = "null"]

\* authStore.clear(): forgets the token and the admin record.
clear(store) == [token |-> EmptyToken, record |-> "null"]

\* A validity test that only asks whether an exp claim has passed.
isValidUnlessExpired(store) == store.token = EmptyToken \/ store.token[1] \notin expired

\* authStore.isValid: a token is present and its exp claim has not passed.
isValid(store) == store.token # EmptyToken /\ store.token[1] \notin expired

isAuthenticated(c) == isValid(authStore[c])

getToken(c) == authStore[c].token

\* What a call leaves in last[c]: the method, its record id, how far it got,
\* the error it rejected with, and (for the properties) the call's serial,
\* isAuthenticated() when it was called, the method called before it and
\* the method called on the client while this call was awaiting the backend.
Call(op, id, state, error, n, auth, prev) ==
    [op |-> op, id |-> id, state |-> state, error |-> error, value |-> NoValue,
     n |-> n, authAtCall |-> auth, prev |-> prev, during |-> "none"]

Request(c, op, id) ==
    [client |-> c, op |-> op, id |-> id, n |-> ncalls + 1,
     authAtCall |-> isAuthenticated(c), prev |-> last[c].op]

Started(c, op, id, state, error) ==
    Call(op, id, state, error, ncalls + 1, isAuthenticated(c), last[c].op)

\* The client's latest call when it was started after p and p is still in flight.
Overtaken(p) == IF last[p.client].n > p.n THEN last[p.client].op ELSE "none"

Settled(p, state, error) ==
    [Call(p.op, p.id, state, error, p.n, p.authAtCall, p.prev) EXCEPT !.during = Overtaken(p)]

CanCall == ncalls < MaxCalls
CanSend == Cardinality(pending) < MaxPending

\* ------------------------------------------------------- retryWithBackoff
\* What fn throws is an Error or some other value; message is its message,
\* or the string String(value) gives, with the serial of the call of fn it
\* comes from. lastError starts undefined.
Undefined == [kind |-> "undefined", message |-> <<"", 0>>]

\* fn's k-th call rejects with an Error or with a value that is no Error.
Throwables(k) ==
    {[kind |-> "Error", message |-> <<"thrown by fn", k>>],
     [kind |-> "value", message |-> <<"thrown by fn", k>>]}

\* error instanceof Error ? error : new Error(String(error))
ToError(t) == IF t.kind = "Error" THEN t ELSE [kind |-> "new Error", message |-> t.message]

\* new Error('Retry failed')
RetryFailed == [kind |-> "new Error", message |-> <<"Retry failed", 0>>]

\* The call at its first statement: let lastError; i = 0. thrown, waits and
\* calls record what fn threw, the delays waited and the calls of fn.
RetryState(maxRetries, initialDelay) ==
    [maxRetries |-> maxRetries, initialDelay |-> initialDelay, pc |-> "loop", i |-> 0,
     lastError |-> Undefined, result |-> NoValue, thrown |-> <<>>, waits |-> <<>>, calls |-> 0]

NotCalled == [RetryState(DefaultMaxRetries, DefaultInitialDelay) EXCEPT !.pc = "not called"]

\* Every client is constructed, none has called anything.
ClientsInit ==
    /\ authStore = [c \in Clients |-> [token |-> EmptyToken, record |-> "null"]]
    /\ pending = {}
    /\ last = [c \in Clients |-> Call("none", 0, "none", NoError, 0, FALSE, "none")]
    /\ ncalls = 0
    /\ issued = 0
    /\ expired = {}
    /\ records = {}

Init ==
    /\ ClientsInit
    /\ retry = NotCalled

\* ------------------------------------------------------------ operations
logout(c) ==
    /\ CanCall
    /\ authStore' = [authStore EXCEPT ![c] = clear(@)]
    /\ last' = [last EXCEPT ![c] = Started(c, "logout", 0, "returned", NoError)]
    /\ ncalls' = ncalls + 1
    /\ UNCHANGED <<pending, issued, expired, records, retry>>

\* A healthCheck() behind the guard of the protected methods.
healthCheckGuarded(c) ==
    /\ CanCall
    /\ IF ~isAuthenticated(c)
       THEN /\ last' = [last EXCEPT ![c] =
                          Started(c, "healthCheck", 0, "rejected", NotAuthenticatedMsg)]
            /\ UNCHANGED pending
       ELSE /\ CanSend
            /\ pending' = pending \cup {Request(c, "healthCheck", 0)}
            /\ last' = [last EXCEPT ![c] = Started(c, "healthCheck", 0, "pending", NoError)]
    /\ ncalls' = ncalls + 1
    /\ UNCHANGED <<authStore, issued, expired, records, retry>>

\* healthCheck(): fetch of /api/health, no authentication needed.
healthCheck(c) ==
    /\ CanCall /\ CanSend
    /\ pending' = pending \cup {Request(c, "healthCheck", 0)}
    /\ last' = [last EXCEPT ![c] = Started(c, "healthCheck", 0, "pending", NoError)]
    /\ ncalls' = ncalls + 1
    /\ UNCHANGED <<authStore, issued, expired, records, retry>>

\* The fetch settles: an OK response resolves, a non-OK status or a failed
\* fetch is rethrown with the health-check prefix.
\* An OK response carries a JSON body whose code and message may be absent
\* (0 and "" here) or a body that is no JSON; the other responses are a
\* non-OK status and a fetch that fails.
HealthBodies == [code : {0, 200}, message : {"", "API is healthy."}]

EmptyBody == [code |-> 0, message |-> ""]

HealthResponses ==
    {[kind |-> "ok", status |-> 200, body |-> b] : b \in HealthBodies}
        \cup {[kind |-> "json", status |-> 200, body |-> EmptyBody],
              [kind |-> "status", status |-> 500, body |-> EmptyBody],
              [kind |-> "unreachable", status |-> 0, body |-> EmptyBody]}

\* { code: data.code || response.status, message: data.message || 'OK' }
HealthResult(resp) ==
    <<IF resp.body.code # 0 THEN resp.body.code ELSE resp.status,
      IF resp.body.message # "" THEN resp.body.message ELSE "OK">>

healthCheckSettle(p, resp) ==
    /\ p \in pending /\ p.op = "healthCheck"
    /\ pending' = pending \ {p}
    /\ last' = [last EXCEPT ![p.client] =
                  IF resp.kind = "ok"
                  THEN [Settled(p, "resolved", NoError) EXCEPT !.value = HealthResult(resp)]
                  ELSE Settled(p, "rejected", HealthFailedMsg(resp.kind))]
    /\ UNCHANGED <<authStore, ncalls, issued, expired, records, retry>>

\* authenticate(): admins.authWithPassword with the configured credentials.
authenticate(c) ==
    /\ CanCall /\ CanSend
    /\ pending' = pending \cup {Request(c, "authenticate", 0)}
    /\ last' = [last EXCEPT ![c] = Started(c, "authenticate", 0, "pending", NoError)]
    /\ ncalls' = ncalls + 1
    /\ UNCHANGED <<authStore, issued, expired, records, retry>>

\* A save into one store shared by every client.
saveShared(c, token) == [d \in Clients |-> [token |-> token, record |-> "admin"]]

\* The SDK saves the token and the admin record in the auth store of the
\* client that authenticated (each client owns its PocketBase instance).
save(c, token) == [authStore EXCEPT ![c] = [token |-> token, record |-> "admin"]]

\* A settle that drops the token of a login the client logged out of
\* while it was in flight.
authenticateSettleUnlessLoggedOut(p, ok) ==
    /\ p \in pending /\ p.op = "authenticate"
    /\ pending' = pending \ {p}
    /\ IF ok
       THEN /\ issued < MaxTokens
            /\ issued' = issued + 1
            /\ authStore' = IF Overtaken(p) = "logout"
                            THEN authStore ELSE save(p.client, <<issued + 1>>)
            /\ last' = [last EXCEPT ![p.client] = Settled(p, "resolved", NoError)]
       ELSE /\ last' = [last EXCEPT ![p.client] =
                          Settled(p, "rejected", AuthFailedMsg("400"))]
            /\ UNCHANGED <<authStore, issued>>
    /\ UNCHANGED <<ncalls, expired, records, retry>>

\* A settle that saves a token although the backend rejected the credentials.
authenticateSettleSavesOnFailure(p, ok) ==
    /\ p \in pending /\ p.op = "authenticate"
    /\ pending' = pending \ {p}
    /\ issued < MaxTokens
    /\ issued' = issued + 1
    /\ authStore' = save(p.client, <<issued + 1>>)
    /\ last' = [last EXCEPT ![p.client] =
                  IF ok THEN Settled(p, "resolved", NoError)
                  ELSE Settled(p, "rejected", AuthFailedMsg("400"))]
    /\ UNCHANGED <<ncalls, expired, records, retry>>

\* The backend accepts the credentials and the SDK saves the new token in
\* the auth store, or the backend rejects them and the error is rethrown.
authenticateSettle(p, ok) ==
    /\ p \in pending /\ p.op = "authenticate"
    /\ pending' = pending \ {p}
    /\ IF ok
       THEN /\ issued < MaxTokens
            /\ issued' = issued + 1
            /\ authStore' = save(p.client, <<issued + 1>>)
            /\ last' = [last EXCEPT ![p.client] = Settled(p, "resolved", NoError)]
       ELSE /\ last' = [last EXCEPT ![p.client] =
                          Settled(p, "rejected", AuthFailedMsg("400"))]
            /\ UNCHANGED <<authStore, issued>>
    /\ UNCHANGED <<ncalls, expired, records, retry>>

\* A guard that looks at the token alone, not at its validity.
GuardedByToken(c, op, id) ==
    /\ CanCall
    /\ IF getToken(c) = EmptyToken
       THEN /\ last' = [last EXCEPT ![c] =
                          Started(c, op, id, "rejected", NotAuthenticatedMsg)]
            /\ UNCHANGED pending
       ELSE /\ CanSend
            /\ pending' = pending \cup {Request(c, op, id)}
            /\ last' = [last EXCEPT ![c] = Started(c, op, id, "pending", NoError)]
    /\ ncalls' = ncalls + 1
    /\ UNCHANGED <<authStore, issued, expired, records, retry>>

\* The guard every protected method starts with, then the SDK request.
Guarded(c, op, id) ==
    /\ CanCall
    /\ IF ~isAuthenticated(c)
       THEN /\ last' = [last EXCEPT ![c] =
                          Started(c, op, id, "rejected", NotAuthenticatedMsg)]
            /\ UNCHANGED pending
       ELSE /\ CanSend
            /\ pending' = pending \cup {Request(c, op, id)}
            /\ last' = [last EXCEPT ![c] = Started(c, op, id, "pending", NoError)]
    /\ ncalls' = ncalls + 1
    /\ UNCHANGED <<authStore, issued, expired, records, retry>>

listCollections(c) == Guarded(c, "listCollections", 0)

createRecord(c) == Guarded(c, "createRecord", 0)

getRecord(c, id) == Guarded(c, "getRecord", id)

listRecords(c) == Guarded(c, "listRecords", 0)

updateRecord(c, id) == Guarded(c, "updateRecord", id)

deleteRecord(c, id) == Guarded(c, "deleteRecord", id)

\* What the backend does with a request it accepts.
FreeIds == RecordIds \ records

Accepts(p) ==
    CASE p.op \in {"getRecord", "updateRecord", "deleteRecord"} -> p.id \in records
      [] p.op = "createRecord" -> FreeIds # {}
      [] OTHER -> TRUE

Applied(p) ==
    CASE p.op = "createRecord" -> records \cup {CHOOSE i \in FreeIds : \A j \in FreeIds : i <= j}
      [] p.op = "deleteRecord" -> records \ {p.id}
      [] OTHER -> records

\* A settle that also clears the auth store when the request fails.
guardedSettleClearsOnError(p, ok) ==
    /\ p \in pending /\ p.op \in GuardedOps
    /\ pending' = pending \ {p}
    /\ IF ok
       THEN /\ Accepts(p)
            /\ records' = Applied(p)
            /\ last' = [last EXCEPT ![p.client] = Settled(p, "resolved", NoError)]
            /\ UNCHANGED authStore
       ELSE /\ last' = [last EXCEPT ![p.client] =
                          Settled(p, "rejected", FailedMsg(p.op, p.id, "sdk"))]
            /\ authStore' = [authStore EXCEPT ![p.client] = clear(@)]
            /\ UNCHANGED records
    /\ UNCHANGED <<ncalls, issued, expired, retry>>

\* The SDK request of a guarded method settles: the record(s) come back, or
\* the SDK error is rethrown with the method's own prefix.
guardedSettle(p, ok) ==
    /\ p \in pending /\ p.op \in GuardedOps
    /\ pending' = pending \ {p}
    /\ IF ok
       THEN /\ Accepts(p)
            /\ records' = Applied(p)
            /\ last' = [last EXCEPT ![p.client] = Settled(p, "resolved", NoError)]
       ELSE /\ last' = [last EXCEPT ![p.client] =
                          Settled(p, "rejected", FailedMsg(p.op, p.id, "sdk"))]
            /\ UNCHANGED records
    /\ UNCHANGED <<authStore, ncalls, issued, expired, retry>>

\* Time passes the exp claim of an issued token.
tokenExpires(k) ==
    /\ k \in (1..issued) \ expired
    /\ expired' = expired \cup {k}
    /\ UNCHANGED <<authStore, pending, last, ncalls, issued, records, retry>>

Next ==
    \/ \E c \in Clients : healthCheck(c)
    \/ \E p \in pending, resp \in HealthResponses : healthCheckSettle(p, resp)
    \/ \E c \in Clients : authenticate(c)
    \/ \E p \in pending, ok \in BOOLEAN : authenticateSettle(p, ok)
    \/ \E c \in Clients : logout(c)
    \/ \E c \in Clients : listCollections(c)
    \/ \E c \in Clients : createRecord(c)
    \/ \E c \in Clients, id \in RecordIds : getRecord(c, id)
    \/ \E c \in Clients : listRecords(c)
    \/ \E c \in Clients, id \in RecordIds : updateRecord(c, id)
    \/ \E c \in Clients, id \in RecordIds : deleteRecord(c, id)
    \/ \E p \in pending, ok \in BOOLEAN : guardedSettle(p, ok)
    \/ \E k \in 1..MaxTokens : tokenExpires(k)

Spec == Init /\ [][Next]_vars

\* ------------------------------------------- retryWithBackoff, step by step
MaxRetriesArgs == (-1..MaxRetries) \cup {DefaultMaxRetries}
InitialDelayArgs == (1..MaxDelay) \cup {DefaultInitialDelay}

InitRetry ==
    /\ ClientsInit
    /\ \E m \in MaxRetriesArgs, d \in InitialDelayArgs : retry = RetryState(m, d)

clientVars == <<authStore, pending, last, ncalls, issued, expired, records>>

\* A loop test that lets one call too many through.
callFnOnceMore ==
    /\ retry.pc = "loop"
    /\ retry.i <= retry.maxRetries
    /\ retry' = [retry EXCEPT !.pc = "await fn", !.calls = @ + 1]
    /\ UNCHANGED clientVars

\* for (...; i < maxRetries; ...) try { return await fn() }
callFn ==
    /\ retry.pc = "loop"
    /\ retry.i < retry.maxRetries
    /\ retry' = [retry EXCEPT !.pc = "await fn", !.calls = @ + 1]
    /\ UNCHANGED clientVars

\* fn resolves: retryWithBackoff returns its value.
fnResolves ==
    /\ retry.pc = "await fn"
    /\ retry' = [retry EXCEPT !.pc = "resolved",
                              !.result = [kind |-> "value",
                                          message |-> <<"returned by fn", retry.calls>>]]
    /\ UNCHANGED clientVars

\* fn rejects: the catch block keeps the error and, unless this was the last
\* allowed call, starts the timer; otherwise the loop goes on to i++.
fnRejects(t) ==
    /\ retry.pc = "await fn"
    /\ retry' = [retry EXCEPT !.lastError = ToError(t),
                              !.thrown = Append(@, t),
                              !.pc = IF retry.i < retry.maxRetries - 1
                                     THEN "await timer" ELSE "loop",
                              !.i = IF retry.i < retry.maxRetries - 1 THEN @ ELSE @ + 1]
    /\ UNCHANGED clientVars

\* setTimeout(resolve, initialDelay * 2 ** i) fires, then i++.
timerFires ==
    /\ retry.pc = "await timer"
    /\ retry' = [retry EXCEPT !.waits = Append(@, retry.initialDelay * 2^retry.i),
                              !.i = @ + 1,
                              !.pc = "loop"]
    /\ UNCHANGED clientVars

\* throw lastError || new Error('Retry failed')
throwLastError ==
    /\ retry.pc = "loop"
    /\ ~(retry.i < retry.maxRetries)
    /\ retry' = [retry EXCEPT !.pc = "rejected",
                              !.result = IF retry.lastError # Undefined
                                         THEN retry.lastError ELSE RetryFailed]
    /\ UNCHANGED clientVars

NextRetry ==
    \/ callFn
    \/ fnResolves
    \/ \E t \in Throwables(retry.calls) : fnRejects(t)
    \/ timerFires
    \/ throwLastError

RetrySpec == InitRetry /\ [][NextRetry]_vars

\* ---------------------------------------------------------------- claims
\* C6: a guarded method (listCollections, createRecord, getRecord,
\* listRecords, updateRecord, deleteRecord) called on a client whose
\* isAuthenticated() is false rejects with a message starting with
\* 'Not authenticated', and no request of that call reaches the backend.
NotAuthenticatedRejects ==
    \A c \in Clients :
        (last[c].op \in GuardedOps /\ ~last[c].authAtCall) =>
            /\ last[c].state = "rejected"
            /\ StartsWith(last[c].error, "Not authenticated")
            /\ ~\E p \in pending : p.client = c /\ p.n = last[c].n

\* C6 witness: a guarded method was rejected on a client right after logout().
RejectedAfterLogout ==
    \E c \in Clients :
        /\ last[c].op \in GuardedOps
        /\ last[c].prev = "logout"
        /\ ~last[c].authAtCall
        /\ last[c].error = NotAuthenticatedMsg

\* C10: logout() returns (never throws) and leaves isAuthenticated() false
\* and getToken() empty, whatever the client's state was when it was called.
LogoutClears ==
    \A c \in Clients :
        last[c].op = "logout" =>
            /\ last[c].state = "returned"
            /\ ~isAuthenticated(c)
            /\ getToken(c) = EmptyToken

\* C10 witness: logout() was called on an authenticated client.
LoggedOutFromAuthenticated ==
    \E c \in Clients :
        /\ last[c].op = "logout"
        /\ last[c].authAtCall
        /\ ~isAuthenticated(c)
        /\ getToken(c) = EmptyToken

\* ------------------------------------------------------- steps of a client
\* logout() is called on c in this step.
LogoutCalled(c) ==
    ncalls' = ncalls + 1 /\ last'[c].n = ncalls' /\ last'[c].op = "logout"

\* An authenticate() of c settles in this step.
AuthenticateSettled(c) ==
    \E p \in pending : p \notin pending' /\ p.client = c /\ p.op = "authenticate"

AuthenticateResolved(c) ==
    AuthenticateSettled(c) /\ last'[c].op = "authenticate" /\ last'[c].state = "resolved"

AuthenticateRejected(c) ==
    AuthenticateSettled(c) /\ last'[c].op = "authenticate" /\ last'[c].state = "rejected"

\* The exp claim of the token c holds has passed after this step.
TokenExpired(c) == getToken(c) # EmptyToken /\ getToken(c)[1] \in expired'

AuthenticateCalled(c) ==
    ncalls' = ncalls + 1 /\ last'[c].n = ncalls' /\ last'[c].op = "authenticate"

\* C18: a step of authenticate() (its call or its settling) or of logout()
\* on one client leaves isAuthenticated() and getToken() of every other
\* client as they were, for every interleaving of the clients' calls.
AuthenticationIsPerClient ==
    [][\A c \in Clients, d \in Clients :
          (c # d /\ (AuthenticateCalled(c) \/ AuthenticateSettled(c) \/ LogoutCalled(c))) =>
              /\ getToken(d)' = getToken(d)
              /\ isAuthenticated(d)' = isAuthenticated(d)]_vars

\* C18 witness: one client logged out from an authenticated state while
\* another client is still authenticated with its own token.
OneLoggedOutOtherAuthenticated ==
    \E c \in Clients, d \in Clients :
        /\ c # d
        /\ last[c].op = "logout"
        /\ last[c].authAtCall
        /\ ~isAuthenticated(c)
        /\ isAuthenticated(d)

\* C19: an authenticate() the backend rejects is rejected with a message
\* starting with 'PocketBase authentication failed' and leaves the client's
\* token and isAuthenticated() as they were (a client that was not
\* authenticated stays not authenticated).
FailedAuthenticateChangesNothing ==
    [][\A c \in Clients :
          AuthenticateRejected(c) =>
              /\ StartsWith(last'[c].error, "PocketBase authentication failed")
              /\ getToken(c)' = getToken(c)
              /\ isAuthenticated(c)' = isAuthenticated(c)]_vars

\* C19 witness: authenticate() was rejected on a client that was not
\* authenticated, and the client is still not authenticated.
RejectedAuthenticateStillUnauthenticated ==
    \E c \in Clients :
        /\ last[c].op = "authenticate"
        /\ last[c].state = "rejected"
        /\ last[c].error = AuthFailedMsg("400")
        /\ ~last[c].authAtCall
        /\ ~isAuthenticated(c)
        /\ getToken(c) = EmptyToken

\* C27: a healthCheck() that resolves (the server answered with an OK
\* response) resolves with code 200 and message 'OK'.
HealthCheckResolves200OK ==
    \A c \in Clients :
        (last[c].op = "healthCheck" /\ last[c].state = "resolved") =>
            last[c].value = <<200, "OK">>

\* healthCheck() is called on c in this step.
HealthCheckCalled(c) ==
    ncalls' = ncalls + 1 /\ last'[c].n = ncalls' /\ last'[c].op = "healthCheck"

\* The healthCheck() request p settles in this step.
HealthCheckSettles(p) == p \in pending /\ p \notin pending' /\ p.op = "healthCheck"

\* C33: healthCheck() needs no authentication (its request is sent whether
\* or not the client is authenticated), its call and its settling leave the
\* client's token and isAuthenticated() as they were, it settles either
\* resolved with a value or rejected with a message starting with
\* 'PocketBase health check failed', and the settling of one health check
\* leaves every other request in flight, concurrent health checks of the
\* same client included, still in flight.
HealthCheckNeedsNoAuthentication ==
    [][/\ \A c \in Clients :
             HealthCheckCalled(c) =>
                 /\ last'[c].state = "pending"
                 /\ \E q \in pending' \ pending :
                        q.client = c /\ q.op = "healthCheck" /\ q.n = last'[c].n
                 /\ authStore' = authStore
       /\ \A p \in pending :
             HealthCheckSettles(p) =>
                 /\ authStore' = authStore
                 /\ isAuthenticated(p.client)' = isAuthenticated(p.client)
                 /\ pending' = pending \ {p}
                 /\ last'[p.client].op = "healthCheck" /\ last'[p.client].n = p.n
                 /\ \/ /\ last'[p.client].state = "resolved"
                       /\ last'[p.client].value # NoValue
                    \/ /\ last'[p.client].state = "rejected"
                       /\ StartsWith(last'[p.client].error, "PocketBase health check failed")]_vars

\* C33 witness: of two concurrent health checks of a client that never
\* authenticated, one was rejected and the other is still in flight.
HealthCheckRejectedOtherInFlight ==
    \E c \in Clients :
        /\ last[c].op = "healthCheck"
        /\ last[c].state = "rejected"
        /\ last[c].error[1] = "PocketBase health check failed"
        /\ ~last[c].authAtCall
        /\ getToken(c) = EmptyToken
        /\ \E q \in pending : q.client = c /\ q.op = "healthCheck" /\ q.n # last[c].n

\* The prefix of the message a guarded method rethrows a backend error with.
OwnPrefix(op, id) ==
    CASE op = "listCollections" -> <<"Failed to list collections">>
      [] op = "createRecord" -> <<"Failed to create record in ", "test_records">>
      [] op = "getRecord" -> <<"Failed to get record ", id, " from ", "test_records">>
      [] op = "listRecords" -> <<"Failed to list records from ", "test_records">>
      [] op = "updateRecord" -> <<"Failed to update record ", id, " in ", "test_records">>
      [] op = "deleteRecord" -> <<"Failed to delete record ", id, " from ", "test_records">>

HasPrefix(msg, prefix) ==
    Len(msg) >= Len(prefix) /\ SubSeq(msg, 1, Len(prefix)) = prefix

\* The backend rejects the guarded request p in this step.
BackendRejects(p) ==
    /\ p \in pending /\ p \notin pending' /\ p.op \in GuardedOps
    /\ last'[p.client].state = "rejected"

\* C34: when the backend rejects a guarded operation that was called on an
\* authenticated client, the operation rejects with a message that starts
\* with the operation's own prefix and not with 'Not authenticated', and
\* the rejection leaves the client's token and isAuthenticated() as they
\* were (an authenticated client stays authenticated).
BackendRejectionKeepsAuthentication ==
    [][\A p \in pending :
          BackendRejects(p) =>
              /\ p.authAtCall
              /\ last'[p.client].op = p.op /\ last'[p.client].n = p.n
              /\ HasPrefix(last'[p.client].error, OwnPrefix(p.op, p.id))
              /\ ~StartsWith(last'[p.client].error, "Not authenticated")
              /\ getToken(p.client)' = getToken(p.client)
              /\ isAuthenticated(p.client)' = isAuthenticated(p.client)]_vars

\* C34 witness: deleteRecord of an unknown record id was rejected by the
\* backend and the client is still authenticated.
DeleteRejectedStillAuthenticated ==
    \E c \in Clients :
        /\ last[c].op = "deleteRecord"
        /\ last[c].id \notin records
        /\ last[c].state = "rejected"
        /\ last[c].error[1] = "Failed to delete record "
        /\ last[c].authAtCall
        /\ isAuthenticated(c)

\* C35: when logout() was called on a client while an authenticate() of it
\* was in flight and that authenticate() then resolved, the client holds the
\* new token and is authenticated (as long as that token has not expired),
\* although no authenticate() was started after the logout().
LogoutDoesNotCancelLogin ==
    \A c \in Clients :
        (last[c].op = "authenticate" /\ last[c].state = "resolved"
            /\ last[c].during = "logout") =>
            /\ getToken(c) # EmptyToken
            /\ isAuthenticated(c) \/ getToken(c)[1] \in expired

\* C35 witness: a client that was not authenticated when it called
\* authenticate(), called logout() while the login was in flight, and is
\* authenticated after the login resolved.
AuthenticatedAfterLogoutDuringLogin ==
    \E c \in Clients :
        /\ last[c].op = "authenticate"
        /\ last[c].state = "resolved"
        /\ last[c].during = "logout"
        /\ ~last[c].authAtCall
        /\ isAuthenticated(c)
        /\ getToken(c) # EmptyToken

AtMost(n) == IF n > 0 THEN n ELSE 0

\* What both readings of C38 share: fn is called at most maxRetries times;
\* a resolved call resolves with the value of the first call of fn that
\* succeeded (every call before it failed, and it is the last call made);
\* the k-th delay waited is initialDelay * 2^(k-1), one delay after each
\* failed call except the last allowed one; a rejected call has made
\* exactly max(maxRetries, 0) calls, all failed.
RetryCallsAndWaits ==
    /\ retry.calls <= AtMost(retry.maxRetries)
    /\ retry.pc = "resolved" =>
           /\ retry.calls = Len(retry.thrown) + 1
           /\ retry.result = [kind |-> "value", message |-> <<"returned by fn", retry.calls>>]
    /\ \A k \in 1..Len(retry.waits) : retry.waits[k] = retry.initialDelay * 2^(k - 1)
    /\ retry.pc \in {"resolved", "rejected"} =>
           Len(retry.waits) = IF Len(retry.thrown) < AtMost(retry.maxRetries - 1)
                              THEN Len(retry.thrown) ELSE AtMost(retry.maxRetries - 1)
    /\ retry.pc = "rejected" =>
           /\ retry.calls = AtMost(retry.maxRetries)
           /\ Len(retry.thrown) = retry.calls

====
